---- MODULE Spec2Model ----
(***************************************************************************)
(* Asynchronous job execution and real-time status streaming of the        *)
(* profesh-gpt backend: the Celery creation task, the streaming-run task,  *)
(* the Redis pub/sub manager shared by the server process, the status      *)
(* repository and the two WebSocket relay handlers.                        *)
(***************************************************************************)
EXTENDS Integers, Sequences, FiniteSets, TLC

(***************************************************************************)
(* Bounds.                                                                 *)
(***************************************************************************)
NumRelays == 2
MaxStreamItems == 1
MaxForeign == 1

Relays == 1..NumRelays

(***************************************************************************)
(* Identifiers.  TaskId is the Celery id of the creation job, RunId the    *)
(* Celery id of the streaming run; relays may be opened for either.        *)
(***************************************************************************)
TaskId == "R1"
RunId == "R2"
Ids == {TaskId, RunId}

None == "None"

\* AgentStatus
QUEUED == "queued"
IN_PROGRESS == "in_progress"
COMPLETED == "completed"
FAILED == "failed"

\* EventType
TOOL_CALL == "tool_call"
LLM_OUTPUT == "llm_output"
AGENT_COMPLETE == "agent_complete"
AGENT_ERROR == "agent_error"
AGENT_PROCESSING_START == "agent_processing_start"
AGENT_PROCESSING_PROGRESS == "agent_processing_progress"
AGENT_PROCESSING_COMPLETE == "agent_processing_complete"
AGENT_PROCESSING_ERROR == "agent_processing_error"

\* Channel kinds and the default value of the channel_type parameter.
AGENT_PROGRESS == "agent_progress"
AGENT_PROCESSING == "agent_processing"
DefaultChannelType == AGENT_PROGRESS

\* websocket.client_state.value after accept() (WebSocketState.CONNECTED), and
\* the value the relay loop compares it with.
WS_CONNECTED == 1
BreakState == 3

VARIABLES
    \* ---- job queue ----
    request_id,     \* id of the creation job in its queue message: the request.id of its execution
    returned_id,    \* task.id the dispatcher handed back to the caller
    \* ---- creation job (worker process) ----
    epc,            \* position of process_agent_creation_task
    task_id,        \* local variable task_id of process_agent_creation_task
    agent_status,   \* status column of the durable agent record (None: no record)
    agentInLocals,  \* "agent" in locals() of process_agent_creation_task
    statusWrites,   \* history of the status values written to the record
    taskResult,     \* "status" of the dict the creation task returned (None: running)
    subscribersAtDispatch,  \* the relays that held a subscription when the job was enqueued
    \* ---- streaming run (worker process) ----
    spc,            \* position of run_agent_task
    streamLeft,     \* items the model run still yields before it ends
    runResult,      \* "status" of the dict run_agent_task returned
    \* ---- broker ----
    published,      \* history of the events the broker accepted, with their channel
    publish_results,  \* history of the publish_event calls: broker outcome and result
    \* ---- server process: RedisManager and relays ----
    redis_client,   \* RedisManager.redis_client of the server: None or "client"
    pubsub,         \* RedisManager.pubsub: 0 (None) or the relay whose subscribe created it
    handle,         \* the PubSub object each relay's subscribe created
    active_connections,  \* id -> websocket (0: key absent)
    rpc,            \* position of each relay handler
    rkind,          \* endpoint of each relay: the channel kind it subscribes with
    rid,            \* path parameter (run_id / task_id) of each relay
    message,        \* local variable "message" of the relay loop
    frames,         \* frames sent on each relay's connection
    clientOpen,     \* whether the peer of each connection is still there
    client_state,   \* websocket.client_state.value
    cleanupCalls,   \* number of unsubscribe_from_channel calls each relay made
    cleanupSaw,     \* what RedisManager.unsubscribe found in self.pubsub on each relay's call
    caught          \* the call whose exception ended each relay's try block (None: none)

execVars == <<request_id, returned_id, epc, task_id, agent_status, agentInLocals, statusWrites,
              taskResult, subscribersAtDispatch>>
streamVars == <<spc, streamLeft, runResult>>
managerVars == <<redis_client, pubsub, handle>>
relayVars == <<active_connections, rpc, rkind, rid, message, frames, clientOpen,
               client_state, cleanupCalls, cleanupSaw, caught>>
vars == <<execVars, streamVars, published, publish_results, managerVars, relayVars>>

(***************************************************************************)
(* AgentStatusRepository._get_channel_name: f"{channel_type}:{run_id}".    *)
(***************************************************************************)
\* (a naming that leaves the channel kind out of the name)
_get_channel_name_without_kind(run_id, channel_type) == DefaultChannelType \o ":" \o run_id

_get_channel_name(run_id, channel_type) == channel_type \o ":" \o run_id

(***************************************************************************)
(* Events (agent_schemas.py).  status is None for the variants that carry  *)
(* no status field; detail is the progress label / error text.            *)
(***************************************************************************)
Event(event_type, run_id, status, detail) ==
    [event_type |-> event_type, run_id |-> run_id, status |-> status, detail |-> detail]

AgentProcessingStartEvent(run_id) ==
    Event(AGENT_PROCESSING_START, run_id, None, "Starting agent processing")
AgentProcessingProgressEvent(run_id, progress) ==
    Event(AGENT_PROCESSING_PROGRESS, run_id, IN_PROGRESS, progress)
AgentProcessingCompleteEvent(run_id) ==
    Event(AGENT_PROCESSING_COMPLETE, run_id, COMPLETED, "completed")
AgentProcessingErrorEvent(run_id) ==
    Event(AGENT_PROCESSING_ERROR, run_id, FAILED, "error")

(***************************************************************************)
(* Wire forms.  model_dump_json serialises an event to JSON text (here the *)
(* sequence of its key/value pairs); json_loads parses that text into a    *)
(* dict and json_dumps serialises a dict to text again.                    *)
(***************************************************************************)
model_dump_json(event) ==
    << <<"event_type", event.event_type>>, <<"run_id", event.run_id>>,
       <<"status", event.status>>, <<"detail", event.detail>> >>

JsonValue(text, key) ==
    IF \E i \in 1..Len(text) : text[i][1] = key
    THEN text[CHOOSE i \in 1..Len(text) : text[i][1] = key][2]
    ELSE None

json_loads(text) ==
    [event_type |-> JsonValue(text, "event_type"), run_id |-> JsonValue(text, "run_id"),
     status |-> JsonValue(text, "status"), detail |-> JsonValue(text, "detail")]

json_dumps(dict) ==
    << <<"event_type", dict.event_type>>, <<"run_id", dict.run_id>>,
       <<"status", dict.status>>, <<"detail", dict.detail>> >>

\* The value of "message" when get_message returned None.
NoMessage == Event(None, None, None, None)

(***************************************************************************)
(* PubSub objects.  st: "absent" (never created), "created" (pubsub()      *)
(* returned, SUBSCRIBE in flight), "subscribed", "closed", "orphan" (the   *)
(* manager's field was overwritten: nothing reads this object again).      *)
(***************************************************************************)
NoHandle == [st |-> "absent", channel |-> None, queue |-> <<>>]
OrphanHandle == [st |-> "orphan", channel |-> None, queue |-> <<>>]
ClosedHandle == [st |-> "closed", channel |-> None, queue |-> <<>>]

SubscribeConfirmation == [type |-> "subscribe", data |-> <<>>]
DataMessage(payload) == [type |-> "message", data |-> payload]

\* The broker hands a published payload to every subscription on the channel.
Deliver(h, channel, payload) ==
    IF h.st = "subscribed" /\ h.channel = channel
    THEN [h EXCEPT !.queue = Append(@, DataMessage(payload))]
    ELSE h

\* the subscriptions attached to a channel
Subscribers(channel) ==
    {r \in Relays : handle[r].st = "subscribed" /\ handle[r].channel = channel}

\* (a publish_event that reports success only when a subscription received the
\* event)
publish_event_result_needs_receiver(ok, receivers) ==
    [returned |-> ok /\ receivers # {}, raised |-> FALSE]

\* (a publish_event that lets the broker's exception out)
publish_event_result_raises(ok, receivers) == [returned |-> ok, raised |-> ~ok]

\* publish_event's try/except: "return True" once redis_client.publish has
\* returned (its receiver count is not read), "return False" from "except
\* Exception"; no exception leaves the method.
publish_event_result(ok, receivers) == [returned |-> ok, raised |-> FALSE]

(***************************************************************************)
(* AgentStatusRepository.publish_event / RedisManager.publish.  ok is the  *)
(* broker's outcome: on failure the exception is swallowed, nothing is     *)
(* published and False is returned.  src names the publishing flow.        *)
(***************************************************************************)
publish_event(run_id, event, channel_type, ok, src) ==
    LET channel == _get_channel_name(run_id, channel_type)
        result == publish_event_result(ok, Subscribers(channel))
    IN  /\ IF ok
           THEN /\ published' = Append(published,
                        [channel |-> channel, event |-> event, durable |-> agent_status,
                         src |-> src, receivers |-> Subscribers(channel)])
                /\ handle' = [r \in Relays |->
                        Deliver(handle[r], channel, model_dump_json(event))]
           ELSE UNCHANGED <<published, handle>>
        /\ publish_results' = Append(publish_results,
                [src |-> src, accepted |-> ok, returned |-> result.returned,
                 raised |-> result.raised, subscribers |-> Cardinality(Subscribers(channel))])

(***************************************************************************)
(* AgentCRUDService.update_agent_status: a write of the status column, or  *)
(* (ok = FALSE) a rollback and DatabaseError.                              *)
(***************************************************************************)
update_agent_status(status, ok) ==
    IF ok
    THEN /\ agent_status' = status
         /\ statusWrites' = Append(statusWrites, status)
    ELSE UNCHANGED <<agent_status, statusWrites>>

(***************************************************************************)
(* process_agent_creation_task and _process_agent_creation.  F is the set  *)
(* of outcomes the database and the broker may have ({TRUE}: no failure).  *)
(***************************************************************************)
ExecOther ==
    UNCHANGED <<request_id, returned_id, subscribersAtDispatch, streamVars, redis_client, pubsub,
                relayVars>>

\* task_id = process_agent_creation_task.request.id; then service.create_agent
\* inserts the record with status QUEUED, or raises.
create_agent(F) ==
    /\ epc = "create"
    /\ task_id' = request_id
    /\ \E ok \in F :
        /\ update_agent_status(QUEUED, ok)
        /\ agentInLocals' = ok
        /\ epc' = IF ok THEN "store_task_id" ELSE "outer_except"
    /\ UNCHANGED <<taskResult, published, publish_results, handle>>
    /\ ExecOther

\* service.update_agent_task_id: writes task_id only, or raises.
update_agent_task_id(F) ==
    /\ epc = "store_task_id"
    /\ \E ok \in F : epc' = IF ok THEN "publish_start" ELSE "outer_except"
    /\ UNCHANGED <<agent_status, agentInLocals, task_id, statusWrites, taskResult, published, publish_results, handle>>
    /\ ExecOther

\* where an exception raised at position `at` is handled: the except clause of
\* _process_agent_creation, or, inside _handle_processing_error (which
\* re-raises), where its caller goes on
ExceptOf(at, next) ==
    IF at \in {"inner_publish_error", "outer_publish_error"} THEN next ELSE "inner_except"

\* (an executor that treats a publish returning False as a failure of the step)
PublishStep_aborts_on_false(F, at, event, next) ==
    /\ epc = at
    /\ \E ok \in F : publish_event(task_id, event, DefaultChannelType, ok, "creation")
    /\ epc' = IF publish_results'[Len(publish_results')].returned
              THEN next ELSE ExceptOf(at, next)
    /\ UNCHANGED <<agent_status, agentInLocals, task_id, statusWrites, taskResult>>
    /\ ExecOther

\* A publish step of _process_agent_creation: publish_event(task_id, event).
PublishStep(F, at, event, next) ==
    /\ epc = at
    /\ \E ok \in F : publish_event(task_id, event, DefaultChannelType, ok, "creation")
    /\ epc' = IF publish_results'[Len(publish_results')].raised
              THEN ExceptOf(at, next) ELSE next
    /\ UNCHANGED <<agent_status, agentInLocals, task_id, statusWrites, taskResult>>
    /\ ExecOther

\* A status step of _process_agent_creation: on DatabaseError control goes to
\* the except clause of _process_agent_creation.
StatusStep(F, at, status, next) ==
    /\ epc = at
    /\ \E ok \in F :
        /\ update_agent_status(status, ok)
        /\ epc' = IF ok THEN next ELSE "inner_except"
    /\ UNCHANGED <<agentInLocals, task_id, taskResult, published, publish_results, handle>>
    /\ ExecOther

PublishStart(F) ==
    PublishStep(F, "publish_start", AgentProcessingStartEvent(task_id), "set_in_progress")
SetInProgress(F) ==
    StatusStep(F, "set_in_progress", IN_PROGRESS, "publish_validating")
PublishValidating(F) ==
    PublishStep(F, "publish_validating",
                AgentProcessingProgressEvent(task_id, "Validating resume"), "get_resume")

\* service.get_resume_by_id: the resume, None ("Resume not found") or DatabaseError.
GetResume(F) ==
    /\ epc = "get_resume"
    /\ \E found \in F : epc' = IF found THEN "publish_processing" ELSE "inner_except"
    /\ UNCHANGED <<agent_status, agentInLocals, task_id, statusWrites, taskResult, published, publish_results, handle>>
    /\ ExecOther

PublishProcessing(F) ==
    PublishStep(F, "publish_processing",
                AgentProcessingProgressEvent(task_id, "Processing resume content"),
                "publish_embeddings")
PublishEmbeddings(F) ==
    PublishStep(F, "publish_embeddings",
                AgentProcessingProgressEvent(task_id, "Generating embeddings"),
                "publish_finalizing")
PublishFinalizing(F) ==
    PublishStep(F, "publish_finalizing",
                AgentProcessingProgressEvent(task_id, "Finalizing agent setup"),
                "set_completed")
SetCompleted(F) ==
    StatusStep(F, "set_completed", COMPLETED, "publish_complete")
PublishComplete(F) ==
    PublishStep(F, "publish_complete", AgentProcessingCompleteEvent(task_id), "return_completed")

\* return {"status": "completed", ...}
ReturnCompleted ==
    /\ epc = "return_completed"
    /\ epc' = "done"
    /\ taskResult' = "completed"
    /\ UNCHANGED <<agent_status, agentInLocals, task_id, statusWrites, published, publish_results, handle>>
    /\ ExecOther

(***************************************************************************)
(* _handle_processing_error, called from the except clause of              *)
(* _process_agent_creation (inner) and again from the except clause of     *)
(* process_agent_creation_task (outer) once the inner call re-raised.      *)
(***************************************************************************)
\* except Exception in _process_agent_creation: await _handle_processing_error(...)
InnerExcept ==
    /\ epc = "inner_except"
    /\ epc' = "inner_set_failed"
    /\ UNCHANGED <<agent_status, agentInLocals, task_id, statusWrites, taskResult, published, publish_results, handle>>
    /\ ExecOther

_handle_processing_error_status(F, at, next, raised) ==
    /\ epc = at
    /\ \E ok \in F :
        /\ update_agent_status(FAILED, ok)
        /\ epc' = IF ok THEN next ELSE raised
    /\ UNCHANGED <<agentInLocals, task_id, taskResult, published, publish_results, handle>>
    /\ ExecOther

_handle_processing_error_publish(F, at, next) ==
    PublishStep(F, at, AgentProcessingErrorEvent(task_id), next)

\* (a handler that publishes the error event without persisting failed first)
InnerSetFailed_skips_write(F) ==
    /\ epc = "inner_set_failed"
    /\ epc' = "inner_publish_error"
    /\ UNCHANGED <<agent_status, agentInLocals, task_id, statusWrites, taskResult, published,
                   publish_results, handle>>
    /\ ExecOther

\* inner call; its "raise" and the "raise" of line 204 both reach the outer except
InnerSetFailed(F) ==
    _handle_processing_error_status(F, "inner_set_failed", "inner_publish_error", "outer_except")
InnerPublishError(F) ==
    _handle_processing_error_publish(F, "inner_publish_error", "outer_except")

\* except Exception in process_agent_creation_task: task_id = getattr(request,
\* "id", "unknown"); if "agent" in locals(): ...
OuterExcept ==
    /\ epc = "outer_except"
    /\ task_id' = request_id
    /\ epc' = IF agentInLocals THEN "outer_set_failed" ELSE "return_failed"
    /\ UNCHANGED <<agent_status, agentInLocals, statusWrites, taskResult, published, publish_results, handle>>
    /\ ExecOther

\* outer call; a failure is swallowed by "except Exception as cleanup_error"
OuterSetFailed(F) ==
    _handle_processing_error_status(F, "outer_set_failed", "outer_publish_error", "return_failed")
OuterPublishError(F) ==
    _handle_processing_error_publish(F, "outer_publish_error", "return_failed")

\* return {"status": "failed", ...}
ReturnFailed ==
    /\ epc = "return_failed"
    /\ epc' = "done"
    /\ taskResult' = "failed"
    /\ UNCHANGED <<agent_status, agentInLocals, task_id, statusWrites, published, publish_results, handle>>
    /\ ExecOther

\* (a dispatcher that hands back an id of its own making instead of the id of
\* the enqueued job)
Dispatch_returns_other_id ==
    /\ epc = "idle"
    /\ epc' = "create"
    /\ request_id' = TaskId
    /\ returned_id' = RunId
    /\ subscribersAtDispatch' = {r \in Relays : handle[r].st = "subscribed"}
    /\ UNCHANGED <<agent_status, agentInLocals, task_id, statusWrites, taskResult, published, publish_results, handle>>
    /\ UNCHANGED <<streamVars, redis_client, pubsub, relayVars>>

\* controller create_agent: process_agent_creation_task.delay(...) gives the
\* job its id, enqueues the message carrying it and returns the result handle
\* of that id, whose id the controller returns; a worker then picks the job up.
Dispatch ==
    /\ epc = "idle"
    /\ epc' = "create"
    /\ request_id' = TaskId
    /\ returned_id' = request_id'
    /\ subscribersAtDispatch' = {r \in Relays : handle[r].st = "subscribed"}
    /\ UNCHANGED <<agent_status, agentInLocals, task_id, statusWrites, taskResult, published, publish_results, handle>>
    /\ UNCHANGED <<streamVars, redis_client, pubsub, relayVars>>

\* the try body of process_agent_creation_task, _process_agent_creation included
TaskBody(F) ==
    \/ create_agent(F)
    \/ update_agent_task_id(F)
    \/ PublishStart(F)
    \/ SetInProgress(F)
    \/ PublishValidating(F)
    \/ GetResume(F)
    \/ PublishProcessing(F)
    \/ PublishEmbeddings(F)
    \/ PublishFinalizing(F)
    \/ SetCompleted(F)
    \/ PublishComplete(F)
    \/ ReturnCompleted

\* the except clauses of _process_agent_creation and process_agent_creation_task
TaskExcept(F) ==
    \/ InnerExcept
    \/ InnerSetFailed(F)
    \/ InnerPublishError(F)
    \/ OuterExcept
    \/ OuterSetFailed(F)
    \/ OuterPublishError(F)
    \/ ReturnFailed

process_agent_creation_task(F) == TaskBody(F) \/ TaskExcept(F)

(***************************************************************************)
(* run_agent_task / AgentService.run_agent_with_publishing / run_agent.    *)
(* run_agent catches every exception of the model run and yields an        *)
(* AgentErrorEvent instead; publish_event never raises; so the except      *)
(* clauses of run_agent_with_publishing and run_agent_task are not         *)
(* reachable from the generator and have no action here.                   *)
(***************************************************************************)
StreamOther == UNCHANGED <<execVars, redis_client, pubsub, relayVars>>

StreamItemEvent(run_id, event_type) == Event(event_type, run_id, None, "item")
AgentCompleteEvent(run_id) == Event(AGENT_COMPLETE, run_id, None, "Agent run completed")
AgentErrorEvent(run_id) == Event(AGENT_ERROR, run_id, None, "Agent run failed")

\* run_agent_task is picked up by a worker: asyncio.run(run_agent_with_publishing)
StreamStart ==
    /\ spc = "idle"
    /\ spc' = "running"
    /\ UNCHANGED <<streamLeft, runResult, published, publish_results, handle>>
    /\ StreamOther

\* run_agent yields a tool/LLM event and run_agent_with_publishing publishes it
run_agent_item(F) ==
    /\ spc = "running"
    /\ streamLeft > 0
    /\ \E event_type \in {TOOL_CALL, LLM_OUTPUT}, ok \in F :
        publish_event(RunId, StreamItemEvent(RunId, event_type), DefaultChannelType, ok, "stream")
    /\ streamLeft' = streamLeft - 1
    /\ UNCHANGED <<spc, runResult>>
    /\ StreamOther

\* the model run ended: run_agent yields AgentCompleteEvent
run_agent_complete(F) ==
    /\ spc = "running"
    /\ streamLeft = 0
    /\ \E ok \in F :
        publish_event(RunId, AgentCompleteEvent(RunId), DefaultChannelType, ok, "stream")
    /\ spc' = "cleanup"
    /\ UNCHANGED <<streamLeft, runResult>>
    /\ StreamOther

\* (a run whose failure is also reported after the generator has ended, as the
\* except clause of run_agent_with_publishing would)
run_agent_error_after_end(F) ==
    /\ spc \in {"running", "cleanup"}
    /\ \E ok \in F :
        publish_event(RunId, AgentErrorEvent(RunId), DefaultChannelType, ok, "stream")
    /\ spc' = IF spc = "running" THEN "cleanup" ELSE "done"
    /\ UNCHANGED <<streamLeft, runResult>>
    /\ StreamOther

\* the model run raised: run_agent yields AgentErrorEvent and ends
run_agent_error(F) ==
    /\ spc = "running"
    /\ \E ok \in F :
        publish_event(RunId, AgentErrorEvent(RunId), DefaultChannelType, ok, "stream")
    /\ spc' = "cleanup"
    /\ UNCHANGED <<streamLeft, runResult>>
    /\ StreamOther

\* finally: cleanup_channel(run_id) in the worker process, whose RedisManager
\* never subscribed (pubsub is None there): a no-op.  Then run_agent_task
\* returns {"status": "completed", ...}.
StreamReturn ==
    /\ spc = "cleanup"
    /\ spc' = "done"
    /\ runResult' = "completed"
    /\ UNCHANGED <<streamLeft, published, publish_results, handle>>
    /\ StreamOther

run_agent_task(F) ==
    \/ StreamStart
    \/ run_agent_item(F)
    \/ run_agent_complete(F)
    \/ run_agent_error(F)
    \/ StreamReturn

(***************************************************************************)
(* Server process: RedisManager (one instance, shared by every request)    *)
(* and the relay handlers websocket_endpoint (/stream/{run_id}, channel    *)
(* kind agent_progress) and agent_processing_websocket                     *)
(* (/processing/{task_id}, channel kind agent_processing).  A relay's      *)
(* websocket object is identified by the relay's index.                    *)
(***************************************************************************)
RelayOther == UNCHANGED <<execVars, streamVars, published, publish_results>>

Frame(type, key, id, text) == << <<"type", type>>, <<key, id>>, <<"message", text>> >>
IdKey(kind) == IF kind = AGENT_PROGRESS THEN "run_id" ELSE "task_id"
ConnectionEstablished(kind, id) == Frame("connection_established", IdKey(kind), id, "Connected")
ErrorFrame(kind, id) == Frame("error", IdKey(kind), id, "WebSocket error")

\* RedisManager.subscribe up to its await: self.pubsub = self.redis_client.pubsub().
\* The object the field held before is no longer referenced by the manager.
NewPubSub(r, channel) ==
    /\ pubsub' = r
    /\ handle' = [h \in Relays |->
            IF h = r THEN [st |-> "created", channel |-> channel, queue |-> <<>>]
            ELSE IF h = pubsub THEN OrphanHandle
            ELSE handle[h]]

\* await websocket.accept(); active_connections[id] = websocket; then
\* subscribe_to_channel runs up to its first await: connect() when the manager
\* has no client yet, else pubsub.subscribe(channel) on a fresh PubSub object.
RelayAccept(r) ==
    /\ rpc[r] = "idle"
    /\ \E kind \in {AGENT_PROGRESS, AGENT_PROCESSING}, id \in Ids :
        /\ rkind' = [rkind EXCEPT ![r] = kind]
        /\ rid' = [rid EXCEPT ![r] = id]
        /\ active_connections' = [active_connections EXCEPT ![id] = r]
        /\ IF redis_client = None
           THEN /\ rpc' = [rpc EXCEPT ![r] = "connecting"]
                /\ UNCHANGED <<pubsub, handle>>
           ELSE /\ rpc' = [rpc EXCEPT ![r] = "subscribing"]
                /\ NewPubSub(r, _get_channel_name(id, kind))
    /\ clientOpen' = [clientOpen EXCEPT ![r] = TRUE]
    /\ client_state' = [client_state EXCEPT ![r] = WS_CONNECTED]
    /\ UNCHANGED <<redis_client, message, frames, cleanupCalls, cleanupSaw, caught>>
    /\ RelayOther

\* RedisManager.connect: self.redis_client = redis.from_url(...), then ping()
\* returned, or raised: the exception leaves subscribe_to_channel and reaches
\* "except Exception" of the handler, the field keeping the client object.
RelayConnect(r) ==
    /\ rpc[r] = "connecting"
    /\ redis_client' = "client"
    /\ \E ok \in BOOLEAN :
        /\ IF ok
           THEN /\ NewPubSub(r, _get_channel_name(rid[r], rkind[r]))
                /\ rpc' = [rpc EXCEPT ![r] = "subscribing"]
           ELSE /\ rpc' = [rpc EXCEPT ![r] = "error_frame"]
                /\ UNCHANGED <<pubsub, handle>>
        /\ caught' = [caught EXCEPT ![r] = IF ok THEN @ ELSE "subscribe_to_channel"]
    /\ UNCHANGED <<active_connections, rkind, rid, message, frames, clientOpen,
                   client_state, cleanupCalls, cleanupSaw>>
    /\ RelayOther

\* await self.pubsub.subscribe(channel) returned on the relay's own PubSub
\* object (or raised).
RECURSIVE Backlog(_, _)
\* the payloads already published on a channel, as data messages
Backlog(ps, channel) ==
    IF ps = <<>> THEN <<>>
    ELSE (IF Head(ps).channel = channel
          THEN <<DataMessage(model_dump_json(Head(ps).event))>> ELSE <<>>)
         \o Backlog(Tail(ps), channel)

\* (a broker that replays to a new subscription what the channel carried before)
RedisManager_subscribe_replays(r, ok) ==
    IF ok /\ handle[r].st # "orphan"
    THEN handle' = [handle EXCEPT ![r] =
            [st |-> "subscribed", channel |-> _get_channel_name(rid[r], rkind[r]),
             queue |-> <<SubscribeConfirmation>>
                        \o Backlog(published, _get_channel_name(rid[r], rkind[r]))]]
    ELSE UNCHANGED handle

RedisManager_subscribe(r, ok) ==
    IF ok /\ handle[r].st # "orphan"
    THEN handle' = [handle EXCEPT ![r] =
            [st |-> "subscribed", channel |-> _get_channel_name(rid[r], rkind[r]),
             queue |-> <<SubscribeConfirmation>>]]
    ELSE UNCHANGED handle

\* (a handler for which subscribe_to_channel swallows the failure and returns)
RelaySubscribed_swallows(r) ==
    /\ rpc[r] = "subscribing"
    /\ \E ok \in BOOLEAN :
        /\ RedisManager_subscribe(r, ok)
        /\ rpc' = [rpc EXCEPT ![r] = "ack"]
    /\ UNCHANGED <<redis_client, pubsub, active_connections, rkind, rid, message, frames,
                   clientOpen, client_state, cleanupCalls, cleanupSaw, caught>>
    /\ RelayOther

RelaySubscribed(r) ==
    /\ rpc[r] = "subscribing"
    /\ \E ok \in BOOLEAN :
        /\ RedisManager_subscribe(r, ok)
        /\ rpc' = [rpc EXCEPT ![r] = IF ok THEN "ack" ELSE "error_frame"]
        /\ caught' = [caught EXCEPT ![r] = IF ok THEN @ ELSE "subscribe_to_channel"]
    /\ UNCHANGED <<redis_client, pubsub, active_connections, rkind, rid, message, frames,
                   clientOpen, client_state, cleanupCalls, cleanupSaw>>
    /\ RelayOther

\* websocket.send_text: the frame reaches an open connection; on a connection
\* whose peer is gone it raises WebSocketDisconnect or another exception,
\* depending on the server stack.
SendExceptions == {"WebSocketDisconnect", "Exception"}

\* (a handler that sends the acknowledgment a second time)
RelayAck_twice(r) ==
    /\ rpc[r] = "ack"
    /\ frames' = [frames EXCEPT ![r] =
            Append(Append(@, ConnectionEstablished(rkind[r], rid[r])),
                   ConnectionEstablished(rkind[r], rid[r]))]
    /\ rpc' = [rpc EXCEPT ![r] = "poll"]
    /\ UNCHANGED <<managerVars, active_connections, rkind, rid, message, clientOpen,
                   client_state, cleanupCalls, cleanupSaw, caught>>
    /\ RelayOther

\* await websocket.send_text(connection_established)
RelayAck(r) ==
    /\ rpc[r] = "ack"
    /\ IF clientOpen[r]
       THEN /\ frames' = [frames EXCEPT ![r] = Append(@, ConnectionEstablished(rkind[r], rid[r]))]
            /\ rpc' = [rpc EXCEPT ![r] = "poll"]
            /\ UNCHANGED caught
       ELSE /\ \E exc \in SendExceptions :
                rpc' = [rpc EXCEPT ![r] =
                    IF exc = "WebSocketDisconnect" THEN "finally" ELSE "error_frame"]
            /\ caught' = [caught EXCEPT ![r] = "send_text"]
            /\ UNCHANGED frames
    /\ UNCHANGED <<managerVars, active_connections, rkind, rid, message, clientOpen,
                   client_state, cleanupCalls, cleanupSaw>>
    /\ RelayOther

\* RedisManager.get_message: the next message of the PubSub object the
\* manager's field holds now; None when the field is None, on timeout, and
\* (AgentStatusRepository.get_message swallowing the error) when the object has
\* no connection.
HasMessage == pubsub # 0 /\ handle[pubsub].st = "subscribed" /\ handle[pubsub].queue # <<>>

\* json.loads accepts the text: every member of the object has a value
WellFormed(text) == \A i \in 1..Len(text) : Len(text[i]) = 2

\* (a get_message that reads the newest message of the subscription instead of
\* the oldest)
get_message_result_newest ==
    IF /\ HasMessage
       /\ handle[pubsub].queue[Len(handle[pubsub].queue)].type = "message"
       /\ WellFormed(handle[pubsub].queue[Len(handle[pubsub].queue)].data)
    THEN json_loads(handle[pubsub].queue[Len(handle[pubsub].queue)].data)
    ELSE NoMessage

\* AgentStatusRepository.get_message on what RedisManager.get_message returned:
\* decode a "message", drop anything else; a payload json.loads rejects raises
\* inside the try block and None is returned.
get_message_result ==
    IF /\ HasMessage
       /\ Head(handle[pubsub].queue).type = "message"
       /\ WellFormed(Head(handle[pubsub].queue).data)
    THEN json_loads(Head(handle[pubsub].queue).data)
    ELSE NoMessage

\* The connection of the PubSub object answers the poll (with a message or
\* with the timeout) or raises.
BrokerReplies == {"reply", "error"}

\* (a get_message that lets the connection's exception out)
AgentStatusRepository_get_message_propagates(reply) ==
    IF reply = "error"
    THEN [raised |-> TRUE, value |-> NoMessage, consumed |-> FALSE]
    ELSE [raised |-> FALSE, value |-> get_message_result, consumed |-> HasMessage]

\* AgentStatusRepository.get_message: try ... except Exception: return None.
\* consumed: a message was taken from the subscription.
AgentStatusRepository_get_message(reply) ==
    IF reply = "error"
    THEN [raised |-> FALSE, value |-> NoMessage, consumed |-> FALSE]
    ELSE [raised |-> FALSE, value |-> get_message_result, consumed |-> HasMessage]

\* if websocket.client_state.value == 3: break
ClientStateBreak(r) == client_state[r] = BreakState

\* (a loop that ends when a poll returns without a message)
RelayPoll_exits_on_timeout(r) ==
    /\ rpc[r] = "poll"
    /\ \E reply \in BrokerReplies :
        LET got == AgentStatusRepository_get_message(reply) IN
            /\ message' = [message EXCEPT ![r] = got.value]
            /\ handle' = IF got.consumed
                         THEN [handle EXCEPT ![pubsub].queue = Tail(@)]
                         ELSE handle
            /\ rpc' = [rpc EXCEPT ![r] =
                    IF got.value # NoMessage THEN "forward" ELSE "finally"]
            /\ caught' = [caught EXCEPT ![r] = IF got.raised THEN "get_message" ELSE @]
    /\ UNCHANGED <<redis_client, pubsub, active_connections, rkind, rid, frames, clientOpen,
                   client_state, cleanupCalls, cleanupSaw>>
    /\ RelayOther

\* message = await repository.get_message(timeout=1.0); without a message the
\* iteration goes on to the client_state check; an exception would be caught
\* by the except clause inside the loop, which breaks.
RelayPoll(r) ==
    /\ rpc[r] = "poll"
    /\ \E reply \in BrokerReplies :
        LET got == AgentStatusRepository_get_message(reply) IN
            /\ message' = [message EXCEPT ![r] = got.value]
            /\ handle' = IF got.consumed
                         THEN [handle EXCEPT ![pubsub].queue = Tail(@)]
                         ELSE handle
            /\ rpc' = [rpc EXCEPT ![r] =
                    IF got.raised THEN "finally"
                    ELSE IF got.value # NoMessage THEN "forward"
                    ELSE IF ClientStateBreak(r) THEN "finally" ELSE "poll"]
            /\ caught' = [caught EXCEPT ![r] = IF got.raised THEN "get_message" ELSE @]
    /\ UNCHANGED <<redis_client, pubsub, active_connections, rkind, rid, frames, clientOpen,
                   client_state, cleanupCalls, cleanupSaw>>
    /\ RelayOther

\* await websocket.send_text(json.dumps(message)); an exception is caught by the
\* except clause inside the loop, which breaks.
RelayForward(r) ==
    /\ rpc[r] = "forward"
    /\ IF clientOpen[r]
       THEN /\ frames' = [frames EXCEPT ![r] = Append(@, json_dumps(message[r]))]
            /\ rpc' = [rpc EXCEPT ![r] = IF ClientStateBreak(r) THEN "finally" ELSE "poll"]
            /\ UNCHANGED caught
       ELSE /\ rpc' = [rpc EXCEPT ![r] = "finally"]
            /\ caught' = [caught EXCEPT ![r] = "loop"]
            /\ UNCHANGED frames
    /\ message' = [message EXCEPT ![r] = NoMessage]
    /\ UNCHANGED <<managerVars, active_connections, rkind, rid, clientOpen, client_state,
                   cleanupCalls, cleanupSaw>>
    /\ RelayOther

\* except Exception (outer): try to send the error frame, swallow a failure.
RelayErrorFrame(r) ==
    /\ rpc[r] = "error_frame"
    /\ frames' = [frames EXCEPT ![r] =
            IF clientOpen[r] THEN Append(@, ErrorFrame(rkind[r], rid[r])) ELSE @]
    /\ rpc' = [rpc EXCEPT ![r] = "finally"]
    /\ UNCHANGED <<managerVars, active_connections, rkind, rid, message, clientOpen,
                   client_state, cleanupCalls, cleanupSaw, caught>>
    /\ RelayOther

\* finally: if id in active_connections: del active_connections[id]; then
\* unsubscribe_from_channel is called.  RedisManager.unsubscribe awaits the
\* broker only when self.pubsub is set; otherwise the handler returns at once.
RelayFinally(r) ==
    /\ rpc[r] = "finally"
    /\ active_connections' = [active_connections EXCEPT ![rid[r]] = 0]
    /\ cleanupCalls' = [cleanupCalls EXCEPT ![r] = @ + 1]
    /\ rpc' = [rpc EXCEPT ![r] = IF pubsub = 0 THEN "done" ELSE "unsubscribing"]
    /\ cleanupSaw' = [cleanupSaw EXCEPT ![r] = IF pubsub = 0 THEN "None" ELSE @]
    /\ UNCHANGED <<managerVars, rkind, rid, message, frames, clientOpen, client_state, caught>>
    /\ RelayOther

\* RedisManager.unsubscribe that leaves an already closed PubSub object
\* reconnected by its UNSUBSCRIBE command instead of closing it again.
RedisManager_unsubscribe_reopens(ok) ==
    IF ok /\ pubsub # 0
    THEN handle' = [handle EXCEPT ![pubsub] =
            IF @.st = "closed" THEN [@ EXCEPT !.st = "created"] ELSE ClosedHandle]
    ELSE UNCHANGED handle

\* RedisManager.unsubscribe: await self.pubsub.unsubscribe(channel); await
\* self.pubsub.close().  A broker error (ok = FALSE) skips close and is
\* swallowed by unsubscribe_from_channel.  The field keeps the closed object.
RedisManager_unsubscribe(ok) ==
    IF ok /\ pubsub # 0
    THEN handle' = [handle EXCEPT ![pubsub] = ClosedHandle]
    ELSE UNCHANGED handle

RelayUnsubscribed(r) ==
    /\ rpc[r] = "unsubscribing"
    /\ \E ok \in BOOLEAN : RedisManager_unsubscribe(ok)
    /\ rpc' = [rpc EXCEPT ![r] = "done"]
    /\ cleanupSaw' = [cleanupSaw EXCEPT ![r] = handle[pubsub].st]
    /\ UNCHANGED <<redis_client, pubsub, active_connections, rkind, rid, message, frames,
                   clientOpen, client_state, cleanupCalls, caught>>
    /\ RelayOther

\* The peer goes away.  client_state is updated by websocket.receive() only,
\* which the handlers never call: it keeps the value accept() gave it.
ClientDisconnect(r) ==
    /\ rpc[r] \notin {"off", "idle", "done"}
    /\ clientOpen[r]
    /\ clientOpen' = [clientOpen EXCEPT ![r] = FALSE]
    /\ UNCHANGED <<managerVars, active_connections, rpc, rkind, rid, message, frames,
                   client_state, cleanupCalls, cleanupSaw, caught>>
    /\ RelayOther

Relay(r) ==
    \/ RelayAccept(r)
    \/ RelayConnect(r)
    \/ RelaySubscribed(r)
    \/ RelayAck(r)
    \/ RelayPoll(r)
    \/ RelayForward(r)
    \/ RelayErrorFrame(r)
    \/ RelayFinally(r)
    \/ RelayUnsubscribed(r)

(***************************************************************************)
(* Initial states.                                                         *)
(***************************************************************************)
InitExec ==
    /\ request_id = None
    /\ returned_id = None
    /\ epc = "idle"
    /\ task_id = None
    /\ agent_status = None
    /\ agentInLocals = FALSE
    /\ statusWrites = <<>>
    /\ taskResult = None
    /\ subscribersAtDispatch = {}

InitStreamOff ==
    /\ spc = "off"
    /\ streamLeft = 0
    /\ runResult = None

InitServer ==
    /\ published = <<>>
    /\ publish_results = <<>>
    /\ redis_client = None
    /\ pubsub = 0
    /\ handle = [r \in Relays |-> NoHandle]
    /\ active_connections = [i \in Ids |-> 0]
    /\ rkind = [r \in Relays |-> None]
    /\ rid = [r \in Relays |-> None]
    /\ message = [r \in Relays |-> NoMessage]
    /\ frames = [r \in Relays |-> <<>>]
    /\ clientOpen = [r \in Relays |-> FALSE]
    /\ client_state = [r \in Relays |-> 0]
    /\ cleanupCalls = [r \in Relays |-> 0]
    /\ cleanupSaw = [r \in Relays |-> "no call"]
    /\ caught = [r \in Relays |-> None]

\* The creation job alone, with a database and a broker that may fail.
Faulty == {TRUE, FALSE}
Reliable == {TRUE}

InitJob ==
    /\ InitExec
    /\ InitStreamOff
    /\ InitServer
    /\ rpc = [r \in Relays |-> "off"]

NextJob == Dispatch \/ process_agent_creation_task(Faulty)

SpecJob == InitJob /\ [][NextJob]_vars

\* The relays of the server process with their clients, and the streaming run
\* publishing to a broker that does not fail.
Init ==
    /\ InitExec
    /\ spc = "idle"
    /\ streamLeft = MaxStreamItems
    /\ runResult = None
    /\ InitServer
    /\ rpc = [r \in Relays |-> "idle"]

Next ==
    \/ run_agent_task(Reliable)
    \/ \E r \in Relays : Relay(r) \/ ClientDisconnect(r)

Spec == Init /\ [][Next]_vars

\* One relay watching while the creation job runs against a database and a
\* broker that do not fail.
Watcher == CHOOSE r \in Relays : \A q \in Relays : r <= q

InitWatch ==
    /\ InitExec
    /\ InitStreamOff
    /\ InitServer
    /\ rpc = [r \in Relays |-> IF r = Watcher THEN "idle" ELSE "off"]

NextWatch ==
    \/ Dispatch
    \/ TaskBody(Reliable)
    \/ Relay(Watcher)
    \/ ClientDisconnect(Watcher)

SpecWatch == InitWatch /\ [][NextWatch]_vars

\* The same, with another client of the broker that publishes, on one of the
\* channels, a payload that is not JSON.
Malformed == << <<"event_type">> >>

ForeignPublish ==
    /\ Cardinality({i \in 1..Len(published) : published[i].src = "foreign"}) < MaxForeign
    /\ \E id \in Ids, kind \in {AGENT_PROGRESS, AGENT_PROCESSING} :
        /\ published' = Append(published,
                [channel |-> _get_channel_name(id, kind), event |-> NoMessage,
                 durable |-> agent_status, src |-> "foreign",
                 receivers |-> Subscribers(_get_channel_name(id, kind))])
        /\ handle' = [r \in Relays |->
                Deliver(handle[r], _get_channel_name(id, kind), Malformed)]
    /\ UNCHANGED <<execVars, streamVars, publish_results, redis_client, pubsub, relayVars>>

NextPoll == NextWatch \/ ForeignPublish

SpecPoll == InitWatch /\ [][NextPoll]_vars

(***************************************************************************)
(* Properties of the creation job.                                         *)
(***************************************************************************)
TerminalTypes == {AGENT_PROCESSING_COMPLETE, AGENT_PROCESSING_ERROR}

\* the events published for a run/task id, in publication order
EventsOf(id) == SelectSeq(published, LAMBDA p : p.event.run_id = id)

TerminalCount(es) == Cardinality({i \in 1..Len(es) : es[i].event.event_type \in TerminalTypes})

\* C1: every execution of the creation job that has ended published exactly
\* one terminal event (agent_processing_complete or agent_processing_error)
\* for its task id, and that event is the last one published for the id.
C1_ExactlyOneTerminalEvent ==
    epc = "done" =>
        LET es == EventsOf(TaskId) IN
            /\ TerminalCount(es) = 1
            /\ es[Len(es)].event.event_type \in TerminalTypes

\* position of a status in queued, in_progress, (completed | failed)
StatusRank(status) ==
    CASE status = QUEUED -> 1
      [] status = IN_PROGRESS -> 2
      [] status = COMPLETED -> 3
      [] status = FAILED -> 3

\* C2: the statuses written to the durable record form a subsequence of
\* queued, in_progress, (completed | failed): none is written twice or out of
\* order and nothing is written after completed or failed.
C2_StatusWritesInOrder ==
    \A i, j \in 1..Len(statusWrites) :
        i < j => StatusRank(statusWrites[i]) < StatusRank(statusWrites[j])

\* the status the step announced by an event moves the job into
StatusOfStep(event) ==
    CASE event.event_type = AGENT_PROCESSING_START -> IN_PROGRESS
      [] event.event_type = AGENT_PROCESSING_PROGRESS -> event.status
      [] event.event_type = AGENT_PROCESSING_COMPLETE -> COMPLETED
      [] event.event_type = AGENT_PROCESSING_ERROR -> FAILED

\* C3: persistence happens before publish at every step: whenever an event of
\* the creation job is published, the durable record already holds the status
\* that step moves the job into.
C3_PersistBeforePublish ==
    \A i \in 1..Len(published) :
        published[i].src = "creation" =>
            published[i].durable = StatusOfStep(published[i].event)

(***************************************************************************)
(* Properties of the relays.                                               *)
(***************************************************************************)
\* the channel the relay endpoint of kind `kind` subscribes to for `id`
\* (/stream/{id}: subscribe_to_channel(id); /processing/{id}:
\* subscribe_to_channel(id, "agent_processing"))
RelayChannel(kind, id) == _get_channel_name(id, kind)

\* C4: the channel an executor publishes an event on is the channel the relay
\* endpoint of that flow subscribes to: agent_processing:{task_id} for the
\* creation job, agent_progress:{run_id} for the streaming run.
C4_SameChannelBothSides ==
    \A i \in 1..Len(published) :
        LET p == published[i] IN
            /\ p.src = "creation" =>
                /\ p.channel = RelayChannel(AGENT_PROCESSING, p.event.run_id)
                /\ \A r \in Relays :
                    (handle[r].st = "subscribed" /\ rkind[r] = AGENT_PROCESSING
                        /\ rid[r] = p.event.run_id) => handle[r].channel = p.channel
            /\ p.src = "stream" =>
                /\ p.channel = RelayChannel(AGENT_PROGRESS, p.event.run_id)
                /\ \A r \in Relays :
                    (handle[r].st = "subscribed" /\ rkind[r] = AGENT_PROGRESS
                        /\ rid[r] = p.event.run_id) => handle[r].channel = p.channel

\* the frame a relay sends for a published event
FrameOf(event) == json_dumps(json_loads(model_dump_json(event)))

RECURSIVE FramesOf(_)
FramesOf(ps) == IF ps = <<>> THEN <<>> ELSE <<FrameOf(Head(ps).event)>> \o FramesOf(Tail(ps))

\* the relay has nothing to forward and nothing to read
Quiescent(r) == rpc[r] \in {"poll", "done"} /\ message[r] = NoMessage /\ ~HasMessage

\* C5: a /processing relay that was subscribed to the job's channel before the
\* job was dispatched, with its client still connected, has, once the job is
\* over and the relay has nothing left to read, forwarded exactly the job's
\* events in order after connection_established, and its loop has terminated.
C5_RelayObservesJob ==
    (/\ Watcher \in subscribersAtDispatch
     /\ rkind[Watcher] = AGENT_PROCESSING /\ rid[Watcher] = TaskId
     /\ clientOpen[Watcher]
     /\ taskResult = "completed"
     /\ Quiescent(Watcher))
    => /\ frames[Watcher] = <<ConnectionEstablished(AGENT_PROCESSING, TaskId)>>
                                \o FramesOf(EventsOf(TaskId))
       /\ rpc[Watcher] = "done"

\* C6: when a relay handler returns, it has invoked the channel cleanup
\* exactly once and its id is not a key of active_connections.
C6_CleanupOnceAndUnregistered ==
    [][\A r \in Relays :
        (rpc[r] # "done" /\ rpc'[r] = "done") =>
            /\ cleanupCalls'[r] = 1
            /\ active_connections'[rid[r]] = 0]_vars

\* C7: a relay that has sent connection_established and whose client has
\* disconnected, on a channel nothing was published on and (the job being
\* over) nothing will be, leaves its poll loop: while it is in the loop it has
\* a step that changes its state.
C7_DisconnectedRelayLeavesLoop ==
    (/\ rpc[Watcher] = "poll"
     /\ epc = "done"
     /\ frames[Watcher] = <<ConnectionEstablished(rkind[Watcher], rid[Watcher])>>
     /\ ~clientOpen[Watcher]
     /\ \A i \in 1..Len(published) :
            published[i].channel # RelayChannel(rkind[Watcher], rid[Watcher])
     /\ ~HasMessage)
    => ENABLED <<Relay(Watcher)>>_vars

\* the frames of a relay that forward an event
IsEventFrame(frame) == frame[1][1] = "event_type"

\* C8: a relay opened for id R on channel kind K forwards only events that
\* were published on channel K:R.
C8_OnlyOwnChannel ==
    \A r \in Relays : \A i \in 1..Len(frames[r]) :
        IsEventFrame(frames[r][i]) =>
            \E j \in 1..Len(published) :
                /\ published[j].channel = RelayChannel(rkind[r], rid[r])
                /\ frames[r][i] = FrameOf(published[j].event)

\* C9: every relay that has accepted its connection and has not reached its
\* exit has its own connection registered in active_connections.
C9_EachActiveRelayRegistered ==
    \A r \in Relays :
        rpc[r] \in {"connecting", "subscribing", "ack", "poll", "forward", "error_frame",
                    "finally"}
            => active_connections[rid[r]] = r

\* C10: a cleanup call made when the manager's subscription is already closed
\* (a second call in a row included) or when none was ever opened returns
\* normally and leaves the manager's state as it was.
C10_CleanupIdempotent ==
    [][\A r \in Relays :
        /\ (rpc[r] = "unsubscribing" /\ rpc'[r] # rpc[r] /\ handle[pubsub].st = "closed")
            => (rpc'[r] = "done" /\ managerVars' = managerVars)
        /\ (rpc[r] = "finally" /\ rpc'[r] # rpc[r] /\ pubsub = 0)
            => (rpc'[r] = "done" /\ managerVars' = managerVars)]_vars

\* two relays have returned, the second one's cleanup having found the
\* subscription the first one's cleanup closed
C10_Witness ==
    \E r1, r2 \in Relays :
        /\ r1 # r2
        /\ rpc[r1] = "done" /\ rpc[r2] = "done"
        /\ cleanupSaw[r1] = "subscribed"
        /\ cleanupSaw[r2] = "closed"
        /\ handle[pubsub] = ClosedHandle

(***************************************************************************)
(* Properties of the status repository.                                    *)
(***************************************************************************)
\* the two channel kinds the system uses
ChannelKinds == {AGENT_PROGRESS, AGENT_PROCESSING}

\* run ids to name channels for: the ids of the jobs and ids that contain the
\* separator, a channel kind or nothing at all
SampleRunIds == Ids \cup {"", ":", "R1:R2", "agent_progress", "agent_processing:R1", "ing:R1"}

\* C11: _get_channel_name gives equal names for equal inputs and, for the two
\* channel kinds and any two run ids, different names for different
\* (run_id, kind) pairs; so the channel a relay is subscribed to is the channel
\* of a published event exactly when both were named from the same pair.
C11_ChannelNameInjective ==
    /\ \A a, b \in SampleRunIds \X ChannelKinds :
            (_get_channel_name(a[1], a[2]) = _get_channel_name(b[1], b[2])) <=> (a = b)
    /\ \A r \in Relays : \A i \in 1..Len(published) :
            handle[r].st \in {"created", "subscribed"} =>
                /\ handle[r].channel = _get_channel_name(rid[r], rkind[r])
                /\ (handle[r].channel = published[i].channel)
                        <=> (<<rid[r], rkind[r]>> = <<published[i].event.run_id, DefaultChannelType>>)

\* a relay has held, since before the job was dispatched, a subscription for
\* the id of a published event under the other channel kind, and the event
\* did not reach it
C11_Witness ==
    \E r \in Relays : \E i \in 1..Len(published) :
        /\ handle[r].st = "subscribed"
        /\ rid[r] = published[i].event.run_id
        /\ rkind[r] = AGENT_PROCESSING
        /\ r \in subscribersAtDispatch
        /\ published[i].receivers = {}

\* the positions of the creation job at which it calls publish_event
PublishPositions ==
    {"publish_start", "publish_validating", "publish_processing", "publish_embeddings",
     "publish_finalizing", "publish_complete", "inner_publish_error", "outer_publish_error"}

\* C12: a publish the broker accepted returns True whether no, one or several
\* subscriptions are attached to the channel, and a job that is about to
\* publish can always take the step: it never waits for a subscriber.
C12_PublishIgnoresSubscribers ==
    /\ \A ok \in BOOLEAN : \A receivers \in SUBSET Relays :
            publish_event_result(ok, receivers).returned = ok
    /\ \A i \in 1..Len(publish_results) :
            publish_results[i].accepted => publish_results[i].returned
    /\ epc \in PublishPositions => ENABLED <<TaskBody(Reliable)>>_vars

\* one accepted publish found no subscription and another found one, and
\* both returned True
C12_Witness ==
    \E i, j \in 1..Len(publish_results) :
        /\ publish_results[i].accepted /\ publish_results[i].returned
        /\ publish_results[i].subscribers = 0
        /\ publish_results[j].accepted /\ publish_results[j].returned
        /\ publish_results[j].subscribers > 0

(***************************************************************************)
(* Properties of the dispatcher and of the creation job's error handling.  *)
(***************************************************************************)
\* C13: the id the dispatcher returns is the id the queue gave the job; the
\* executor's task_id, read from its request, equals it, every event of the
\* job carries it as run_id and the channel of each event is named from it.
C13_ReturnedIdCorrelatesEvents ==
    returned_id # None =>
        /\ returned_id = request_id
        /\ task_id \in {None, returned_id}
        /\ \A i \in 1..Len(published) :
                published[i].src = "creation" =>
                    /\ published[i].event.run_id = returned_id
                    /\ \E kind \in ChannelKinds :
                            published[i].channel = _get_channel_name(returned_id, kind)

\* the job ran to its end under the returned id, publishing a start event and
\* a terminal event
C13_Witness ==
    /\ epc = "done"
    /\ task_id = returned_id
    /\ \E i, j \in 1..Len(published) :
            /\ published[i].event.event_type = AGENT_PROCESSING_START
            /\ published[j].event.event_type \in TerminalTypes
            /\ published[i].event.run_id = returned_id
            /\ published[j].event.run_id = returned_id

\* C14: a creation task that ended after a failure has persisted the status
\* failed, has published an agent_processing_error event carrying the error
\* message, and has ended by raising: it returned no result to the job queue,
\* whose bookkeeping therefore records the task as failed.
C14_FailureRecordedAndReraised ==
    (epc = "done" /\ taskResult # "completed") =>
        /\ agent_status = FAILED
        /\ \E i \in 1..Len(published) :
                /\ published[i].event.event_type = AGENT_PROCESSING_ERROR
                /\ published[i].event.detail = "error"
        /\ taskResult = None

(***************************************************************************)
(* Properties of a single relay and its subscription.                      *)
(***************************************************************************)
\* the events published on a relay's channel while its subscription was attached
EventsFor(r) == SelectSeq(published, LAMBDA p : r \in p.receivers)

\* the frames of a relay that forward an event
EventFrames(r) == SelectSeq(frames[r], IsEventFrame)

IsPrefix(a, b) == Len(a) <= Len(b) /\ a = SubSeq(b, 1, Len(a))

\* C15: the event frames a single relay has sent are, in order and each once
\* and unaltered, the first events published on its channel after it
\* subscribed; and all of them once the relay, its client still connected, has
\* nothing left to read.
C15_ForwardedInOrderVerbatimOnce ==
    /\ IsPrefix(EventFrames(Watcher), FramesOf(EventsFor(Watcher)))
    /\ \A i \in 1..Len(EventFrames(Watcher)) :
            json_loads(EventFrames(Watcher)[i]) = EventsFor(Watcher)[i].event
    /\ (rpc[Watcher] = "poll" /\ clientOpen[Watcher] /\ Quiescent(Watcher))
            => EventFrames(Watcher) = FramesOf(EventsFor(Watcher))

\* the relay has forwarded every event of a completed creation job
C15_Witness ==
    /\ taskResult = "completed"
    /\ Len(EventsOf(TaskId)) > 2
    /\ EventFrames(Watcher) = FramesOf(EventsOf(TaskId))

(***************************************************************************)
(* Properties of the repository's error handling.                          *)
(***************************************************************************)
\* the statement that follows each publish_event call of the creation job
AfterPublish(at) ==
    CASE at = "publish_start" -> "set_in_progress"
      [] at = "publish_validating" -> "get_resume"
      [] at = "publish_processing" -> "publish_embeddings"
      [] at = "publish_embeddings" -> "publish_finalizing"
      [] at = "publish_finalizing" -> "set_completed"
      [] at = "publish_complete" -> "return_completed"
      [] at = "inner_publish_error" -> "outer_except"
      [] at = "outer_publish_error" -> "return_failed"

\* C16: no publish_event call raises; a call returns True when the broker
\* accepted the publish and False when it failed; and after either result the
\* caller goes on with the statement that follows the call.
C16_PublishNeverRaises ==
    /\ [](\A i \in 1..Len(publish_results) :
            /\ ~publish_results[i].raised
            /\ publish_results[i].returned = publish_results[i].accepted)
    /\ [][Len(publish_results') > Len(publish_results) => epc' = AfterPublish(epc)]_vars

\* a job whose broker failed on one publish and accepted another has completed
C16_Witness ==
    /\ taskResult = "completed"
    /\ \E i, j \in 1..Len(publish_results) :
            /\ ~publish_results[i].accepted /\ ~publish_results[i].returned
            /\ publish_results[j].accepted /\ publish_results[j].returned

\* C17: a failure of subscribe_to_channel reaches the relay handler: the relay
\* sends connection_established and enters its poll loop only with its
\* subscription made; after a failure it sends nothing but the error frame,
\* which it attempts (a connected client gets it), it never polls, it always
\* has a next step until it returns, and its finally clause removes the
\* registry entry and calls the cleanup, once.
C17_SubscribeFailurePropagates ==
    /\ [](\A r \in Relays :
            /\ rpc[r] \in {"ack", "poll", "forward"} => handle[r].st \notin {"absent", "created"}
            /\ caught[r] = "subscribe_to_channel" =>
                /\ rpc[r] \in {"error_frame", "finally", "unsubscribing", "done"}
                /\ \A i \in 1..Len(frames[r]) : frames[r][i] = ErrorFrame(rkind[r], rid[r])
                /\ (rpc[r] # "error_frame" /\ clientOpen[r])
                        => frames[r] = <<ErrorFrame(rkind[r], rid[r])>>
                /\ rpc[r] # "done" => ENABLED <<Relay(r)>>_vars
                /\ rpc[r] = "done" => cleanupCalls[r] = 1)
    /\ [][\A r \in Relays :
            (caught[r] = "subscribe_to_channel" /\ rpc[r] = "finally" /\ rpc'[r] # "finally")
                => (active_connections'[rid[r]] = 0 /\ cleanupCalls'[r] = 1)]_vars

\* a relay whose subscribe failed has returned: its connected client got the
\* error frame only, the cleanup ran and the registry entry is gone
C17_Witness ==
    \E r \in Relays :
        /\ caught[r] = "subscribe_to_channel"
        /\ handle[r].st = "created"
        /\ rpc[r] = "done"
        /\ clientOpen[r]
        /\ frames[r] = <<ErrorFrame(rkind[r], rid[r])>>
        /\ cleanupCalls[r] = 1
        /\ active_connections[rid[r]] = 0

\* the oldest message of the subscription the manager holds
NextBrokerMessage == Head(handle[pubsub].queue)

\* C18: get_message never raises: a poll leaves the relay in its loop with no
\* exception caught; it returns a value only when the subscription's next
\* message is of type "message" with a payload that is JSON, and then the
\* decoded payload; in every other case (no subscription, nothing to read, a
\* message of another type, a malformed payload, a broker error) it returns None.
C18_GetMessageNeverRaises ==
    /\ [](\A r \in Relays : caught[r] # "get_message")
    /\ [][\A r \in Relays : rpc[r] = "poll" =>
            /\ rpc'[r] \in {"poll", "forward"}
            /\ rpc'[r] = "forward" <=> message'[r] # NoMessage
            /\ message'[r] # NoMessage =>
                    /\ HasMessage
                    /\ NextBrokerMessage.type = "message"
                    /\ WellFormed(NextBrokerMessage.data)
                    /\ message'[r] = json_loads(NextBrokerMessage.data)
            /\ (~HasMessage \/ NextBrokerMessage.type # "message"
                    \/ ~WellFormed(NextBrokerMessage.data)) => message'[r] = NoMessage]_vars

\* a relay that was sent a malformed payload has read everything it was sent,
\* has forwarded an event and is still polling
C18_Witness ==
    \E r \in Relays :
        /\ \E i \in 1..Len(published) :
                published[i].src = "foreign" /\ r \in published[i].receivers
        /\ rpc[r] = "poll"
        /\ caught[r] = None
        /\ pubsub = r /\ handle[r].st = "subscribed" /\ handle[r].queue = <<>>
        /\ EventFrames(r) # <<>>

\* C19: when an exception is caught inside a relay's poll/forward loop, the
\* relay goes on to attempt the error frame before it leaves for its cleanup.
C19_LoopExceptionSendsErrorFrame ==
    [][\A r \in Relays :
        (rpc[r] \in {"poll", "forward"} /\ caught'[r] # caught[r])
            => rpc'[r] = "error_frame"]_vars

(***************************************************************************)
(* Properties of the durable record at enqueue.                            *)
(***************************************************************************)
\* C20: from the moment the job is enqueued until the executor starts, the
\* durable record exists with status queued; and the first status the
\* executor writes is in_progress.
C20_QueuedAtEnqueue ==
    /\ [](epc = "create" => agent_status = QUEUED)
    /\ [][(epc # "idle" /\ statusWrites = <<>> /\ statusWrites' # <<>>)
            => statusWrites'[1] = IN_PROGRESS]_vars

\* the progress publishes of _process_agent_creation
PublishSteps(F) ==
    \/ PublishStart(F)
    \/ PublishValidating(F)
    \/ PublishProcessing(F)
    \/ PublishEmbeddings(F)
    \/ PublishFinalizing(F)
    \/ PublishComplete(F)

\* the writes on the record once it exists
WriteSteps(F) ==
    \/ update_agent_task_id(F)
    \/ SetInProgress(F)
    \/ SetCompleted(F)
    \/ InnerSetFailed(F)
    \/ OuterSetFailed(F)

\* The creation task running where the insert of the new record may be
\* rejected, the resume may be missing and the broker may fail, while the
\* writes on an existing record succeed.
ExecutorLive ==
    \/ create_agent(Faulty)
    \/ WriteSteps(Reliable)
    \/ GetResume(Faulty)
    \/ PublishSteps(Faulty)
    \/ InnerPublishError(Faulty)
    \/ OuterPublishError(Faulty)
    \/ InnerExcept
    \/ OuterExcept
    \/ ReturnCompleted
    \/ ReturnFailed

\* One relay attaches and its client leaves at any moment; the worker keeps
\* executing the task it has picked up.
NextLive ==
    \/ Dispatch
    \/ ExecutorLive
    \/ Relay(Watcher)
    \/ ClientDisconnect(Watcher)

SpecLive == InitWatch /\ [][NextLive]_vars /\ WF_vars(ExecutorLive)

\* The creation task running where only the broker may fail: every database
\* call succeeds and the resume is found.
ExecutorLossy ==
    \/ create_agent(Reliable)
    \/ update_agent_task_id(Reliable)
    \/ SetInProgress(Reliable)
    \/ SetCompleted(Reliable)
    \/ GetResume(Reliable)
    \/ PublishSteps(Faulty)
    \/ ReturnCompleted

NextLossy ==
    \/ Dispatch
    \/ ExecutorLossy
    \/ Relay(Watcher)
    \/ ClientDisconnect(Watcher)

SpecLossy == InitWatch /\ [][NextLossy]_vars /\ WF_vars(ExecutorLossy)

(***************************************************************************)
(* Properties of the relay protocol.                                       *)
(***************************************************************************)
\* the frames of a relay that acknowledge the connection
AckFrames(r) == SelectSeq(frames[r], LAMBDA f : f[1] = <<"type", "connection_established">>)

OnChannelOf(r) ==
    SelectSeq(published, LAMBDA p : p.channel = RelayChannel(rkind[r], rid[r]))

\* C22: a relay never forwards an event that was published on its channel
\* while its subscription was not open; what it has forwarded is the beginning
\* of the events published from its subscription on, which, while the
\* subscription is open, are a suffix of what the channel carried.
C22_NoReplay ==
    LET r == Watcher
        on == OnChannelOf(r)
    IN  /\ \A i \in 1..Len(on) :
            r \notin on[i].receivers =>
                \A j \in 1..Len(frames[r]) : frames[r][j] # FrameOf(on[i].event)
        /\ \E k \in 0..Len(on) : \E l \in k..Len(on) :
            /\ \A i \in 1..Len(on) : r \in on[i].receivers <=> (k < i /\ i <= l)
            /\ handle[r].st = "subscribed" => l = Len(on)
            /\ IsPrefix(EventFrames(r), FramesOf(SubSeq(on, k + 1, l)))

\* a relay that subscribed after the first events of its job were published
\* has forwarded all the later ones and none of the earlier ones
C22_Witness ==
    LET r == Watcher
        on == OnChannelOf(r)
    IN  /\ rpc[r] = "poll"
        /\ Len(on) > 2
        /\ r \notin on[1].receivers
        /\ r \notin on[2].receivers
        /\ r \in on[Len(on)].receivers
        /\ epc = "done"
        /\ EventFrames(r) = FramesOf(EventsFor(r))

\* C23: a creation job whose executor has started eventually has completed or
\* failed as its durable status, whatever the relay and its client do.
C23_StartedJobEnds ==
    (epc \notin {"idle", "create"}) ~> (agent_status \in {COMPLETED, FAILED})

\* the positions of the executor inside its except clauses
ExceptPositions ==
    {"inner_except", "inner_set_failed", "inner_publish_error",
     "outer_except", "outer_set_failed", "outer_publish_error", "return_failed"}

\* C24: when nothing but publishes fails, the statuses persisted are those of
\* the run in which every publish succeeds (queued, in_progress, completed, in
\* this order), the executor never enters an except clause, a publish step
\* leaves the record alone, and the job reaches completed.
C24_PublishFailureLeavesRecord ==
    /\ [](/\ IsPrefix(statusWrites, <<QUEUED, IN_PROGRESS, COMPLETED>>)
          /\ epc \notin ExceptPositions
          /\ taskResult # "failed"
          /\ epc = "done" =>
                /\ statusWrites = <<QUEUED, IN_PROGRESS, COMPLETED>>
                /\ agent_status = COMPLETED
                /\ taskResult = "completed")
    /\ [][Len(publish_results') > Len(publish_results) =>
                agent_status' = agent_status /\ statusWrites' = statusWrites]_vars
    /\ ((epc # "idle") ~> (agent_status = COMPLETED /\ epc = "done"))

\* a job three of whose publishes failed, the first and the last among them,
\* has completed
C24_Witness ==
    /\ epc = "done"
    /\ taskResult = "completed"
    /\ statusWrites = <<QUEUED, IN_PROGRESS, COMPLETED>>
    /\ Len(publish_results) = 6
    /\ ~publish_results[1].returned
    /\ ~publish_results[6].returned
    /\ Cardinality({i \in 1..6 : ~publish_results[i].returned}) = 3

\* the status a terminal event of the creation job announces
TerminalStatusOf(event_type) ==
    IF event_type = AGENT_PROCESSING_COMPLETE THEN COMPLETED ELSE FAILED

\* C26: when agent_processing_error is published the durable status is failed
\* and when agent_processing_complete is published it is completed, and the
\* status stays so afterwards.
C26_TerminalEventMatchesRecord ==
    \A i \in 1..Len(published) :
        (published[i].src = "creation" /\ published[i].event.event_type \in TerminalTypes) =>
            /\ published[i].durable = TerminalStatusOf(published[i].event.event_type)
            /\ agent_status = TerminalStatusOf(published[i].event.event_type)

\* a job that failed after in_progress was written has published
\* agent_processing_error with failed persisted, and has returned
C26_Witness ==
    /\ epc = "done"
    /\ IN_PROGRESS \in {statusWrites[k] : k \in 1..Len(statusWrites)}
    /\ \E i \in 1..Len(published) :
        /\ published[i].src = "creation"
        /\ published[i].event.event_type = AGENT_PROCESSING_ERROR
        /\ published[i].durable = FAILED

\* C27: a relay in its loop is subscribed and registered; a poll that returns
\* no message leaves it polling, whatever the number of such polls; and it
\* leaves the loop only on an exception or on the connection-state check.
C27_TimeoutKeepsLooping ==
    /\ [](rpc[Watcher] = "poll" =>
            /\ handle[Watcher].st = "subscribed"
            /\ active_connections[rid[Watcher]] = Watcher
            /\ cleanupCalls[Watcher] = 0)
    /\ [][rpc[Watcher] = "poll" =>
            \/ rpc'[Watcher] = "poll"
            \/ rpc'[Watcher] = "forward" /\ message'[Watcher] # NoMessage]_vars
    /\ [][(rpc[Watcher] \in {"poll", "forward"} /\ rpc'[Watcher] \notin {"poll", "forward"}) =>
            \/ caught'[Watcher] # caught[Watcher]
            \/ ClientStateBreak(Watcher)]_vars

\* a relay whose client is connected has taken the subscribe confirmation, a
\* poll without a message, has nothing left to read and is polling again
C27_Witness ==
    LET r == Watcher IN
    /\ rpc[r] = "poll"
    /\ clientOpen[r]
    /\ handle[r].st = "subscribed"
    /\ handle[r].queue = <<>>
    /\ message[r] = NoMessage
    /\ Len(frames[r]) = 1
    /\ active_connections[rid[r]] = r

\* C28: the cleanup of one relay leaves the subscription of every other
\* relay that is past its subscribe as it was.
C28_ExitLeavesOthersSubscribed ==
    [][\A q, r \in Relays :
        (/\ q # r
         /\ rpc[q] \in {"finally", "unsubscribing"}
         /\ rpc'[q] # rpc[q]
         /\ rpc[r] \in {"ack", "poll", "forward"}
         /\ handle[r].st = "subscribed")
        => handle'[r] = handle[r]]_vars

(***************************************************************************)
(* Properties of the streaming run.                                        *)
(***************************************************************************)
\* what the streaming run has published
StreamEvents == SelectSeq(published, LAMBDA p : p.src = "stream")

StreamTerminalTypes == {AGENT_COMPLETE, AGENT_ERROR}

LastStreamEvent == StreamEvents[Len(StreamEvents)].event

\* C29: run_agent_task returns completed only if the last event published
\* for the run is agent_complete; when the last event is agent_error it
\* returns failed.
C29_ResultMatchesLastEvent ==
    (spc = "done" /\ StreamEvents # <<>>) =>
        /\ runResult = "completed" => LastStreamEvent.event_type = AGENT_COMPLETE
        /\ LastStreamEvent.event_type = AGENT_ERROR => runResult = "failed"

(***************************************************************************)
(* Failure of the creation task.                                           *)
(***************************************************************************)
\* C30: a creation task that has returned failed has persisted failed on
\* the record and has published agent_processing_error for its task_id.
C30_FailedReturnWasAnnounced ==
    (epc = "done" /\ taskResult = "failed") =>
        /\ agent_status = FAILED
        /\ \E i \in 1..Len(published) :
            /\ published[i].event.event_type = AGENT_PROCESSING_ERROR
            /\ published[i].event.run_id = request_id
            /\ published[i].channel \in
                    {_get_channel_name(request_id, k) : k \in {AGENT_PROGRESS, AGENT_PROCESSING}}

====
